---- MODULE Spec2Model ----
(***************************************************************************)
(* File and embed metadata extraction of the Directus API:                 *)
(*   api/src/services/files/utils/get-metadata.ts                          *)
(*   api/src/services/files/lib/extract-metadata.ts (and its predecessor)  *)
(*   api/src/constants.ts                                                  *)
(*                                                                         *)
(* JavaScript values are tagged records, objects are functions from        *)
(* property names to values (a property is present iff it is in the        *)
(* DOMAIN), strings are sequences of tokens (characters or character       *)
(* groups), so that truthiness, `??`, parseInt, decodeHTML and URL         *)
(* resolution are computed rather than assumed.                            *)
(***************************************************************************)
EXTENDS Integers, Sequences, FiniteSets, TLC

VARIABLES
    call,          \* the entry point this behaviour runs
    oEmbedSrc,     \* what extractOEmbed(url) will answer
    pageSrc,       \* what extractPageMeta({url}) will answer
    iconSrc,       \* what the parseFavicon observable will emit
    oEmbedP,       \* first element of Promise.all: extractOEmbed(...).catch(...)
    pageP,         \* second element of Promise.all: extractPageMeta(...).then(...)
    subscription,  \* the parseFavicon subscription: "none", "open", "closed"
    produced,      \* favicon candidates delivered to the `next` handler so far
    favicon,       \* getFavicon's local `favicon`
    favP,          \* the promise getFavicon returns
    embedP,        \* the promise getEmbedMetadata returns
    order,         \* the order in which the two fetches answered
    data,          \* extractFileMetadata: the caller's file record
    file,          \* what the storage holds under data.filename_disk
    allowList,     \* getFileMetadata: the allow-list in force
    filePc,        \* extractFileMetadata / getFileMetadata: position
    streamReads,   \* number of storage.location(..).read(..) calls made
    extractorCalls,\* number of getFileMetadata / getMetadata calls made
    fileP          \* the promise the file entry point returns

embedInputs == <<oEmbedSrc, pageSrc, iconSrc>>
embedVars == <<oEmbedP, pageP, subscription, produced, favicon, favP, embedP, order>>
fileInputs == <<data, file, allowList>>
fileVars == <<filePc, streamReads, extractorCalls, fileP>>
vars == <<call, embedInputs, embedVars, fileInputs, fileVars>>

---------------------------------------------------------------------------
(* JavaScript values *)

Undefined == [t |-> "undef"]
Null == [t |-> "null"]
NaN == [t |-> "nan"]
Num(n) == [t |-> "num", v |-> n]
Str(s) == [t |-> "str", v |-> s]
Arr(s) == [t |-> "arr", v |-> s]
Obj(o) == [t |-> "obj", v |-> o]
EmptyObject == <<>>

\* o.k, undefined when the property is missing
Get(o, k) == IF k \in DOMAIN o THEN o[k] ELSE Undefined

\* 'k' in o
HasProp(o, k) == k \in DOMAIN o

\* a ?? b
Nullish(a) == a.t \in {"undef", "null"}
Coalesce(a, b) == IF Nullish(a) THEN b ELSE a

\* ToBoolean
Truthy(a) ==
    CASE a.t \in {"undef", "null", "nan"} -> FALSE
      [] a.t = "num" -> a.v # 0
      [] a.t = "str" -> a.v # <<>>
      [] OTHER -> TRUE

\* a?.[0]
FirstOf(a) ==
    IF Nullish(a) THEN Undefined
    ELSE IF a.t = "arr" /\ Len(a.v) > 0 THEN a.v[1]
    ELSE Undefined

\* property read on a value that may be no object: ({}).width is undefined
Prop(a, k) == IF a.t = "obj" THEN Get(a.v, k) ELSE Undefined

\* `${a}` for the values that occur
ToStr(a) ==
    CASE a.t = "str" -> a.v
      [] a.t = "undef" -> <<"undefined">>
      [] a.t = "null" -> <<"null">>
      [] OTHER -> <<"[object]">>

\* Promise states
Pending == [state |-> "pending"]
Fulfilled(v) == [state |-> "fulfilled", value |-> v]
Rejected == [state |-> "rejected"]

\* resolve(v) of a Promise executor: only the first call settles the promise
Resolve(p, v) == IF p.state = "pending" THEN Fulfilled(v) ELSE p

---------------------------------------------------------------------------
(* Library conversions used by getEmbedMetadata and getFavicon *)

IsSpace(c) == c \in {" ", "\t", "\n"}
IsDigit(c) == c \in {"0", "1", "2", "3", "4", "5", "6", "7", "8", "9"}
DigitVal(c) ==
    CASE c = "0" -> 0 [] c = "1" -> 1 [] c = "2" -> 2 [] c = "3" -> 3
      [] c = "4" -> 4 [] c = "5" -> 5 [] c = "6" -> 6 [] c = "7" -> 7
      [] c = "8" -> 8 [] c = "9" -> 9

RECURSIVE SkipSpace(_)
SkipSpace(s) ==
    IF s # <<>> /\ IsSpace(Head(s)) THEN SkipSpace(Tail(s)) ELSE s

\* the value of the longest prefix of decimal digits of s, given the value so far
RECURSIVE DigitsValue(_, _)
DigitsValue(s, acc) ==
    IF s # <<>> /\ IsDigit(Head(s))
    THEN DigitsValue(Tail(s), acc * 10 + DigitVal(Head(s)))
    ELSE acc

\* Number.parseInt(string): leading white space is skipped, a sign is read, then
\* the longest prefix of digits; NaN when there is no digit. It never throws.
ParseInt(a) ==
    LET s == SkipSpace(ToStr(a))
        neg == s # <<>> /\ Head(s) = "-"
        body == IF s # <<>> /\ Head(s) \in {"-", "+"} THEN Tail(s) ELSE s
    IN  IF body = <<>> \/ ~IsDigit(Head(body)) THEN NaN
        ELSE Num((IF neg THEN -1 ELSE 1) * DigitsValue(body, 0))

\* Math.round(x * 1000) on the result of parseInt (an integer or NaN)
RoundTimes1000(a) == IF a.t = "num" THEN Num(a.v * 1000) ELSE NaN

\* decodeHTML of the `entities` package, on the entities that occur
DecodeEntity(c) ==
    CASE c = "&amp;" -> "&"
      [] c = "&lt;" -> "<"
      [] c = "&gt;" -> ">"
      [] c = "&quot;" -> "\""
      [] c = "&#39;" -> "'"
      [] OTHER -> c
DecodeHTML(s) == [i \in 1..Len(s) |-> DecodeEntity(s[i])]

\* new URL(ref, base).toString(), for http(s) URLs written as token sequences
\* <<scheme, "/", "/", host, "/", segment, "/", segment ...>>
Schemes == {"https:", "http:"}
IsAbsoluteURL(u) == u # <<>> /\ u[1] \in Schemes
OriginOf(base) == SubSeq(base, 1, 4)
RECURSIVE DirOf(_)
DirOf(base) ==
    IF base = <<>> \/ base[Len(base)] = "/" THEN base
    ELSE DirOf(SubSeq(base, 1, Len(base) - 1))
ResolveURL(ref, base) ==
    IF IsAbsoluteURL(ref) THEN ref
    ELSE IF Len(ref) >= 2 /\ ref[1] = "/" /\ ref[2] = "/" THEN <<base[1]>> \o ref
    ELSE IF ref # <<>> /\ ref[1] = "/" THEN OriginOf(base) \o ref
    ELSE DirOf(base) \o ref

---------------------------------------------------------------------------
(* getEmbedMetadata: the merge that follows `await Promise.all` *)

\* const metadata = { oEmbed, ...pageMeta }
EmbedMetadataOf(oEmbed, pageMeta) == pageMeta @@ ("oEmbed" :> Obj(oEmbed))

\* a gate that returns the seed only when both sources are empty as well
ReturnsSeedOnlyWhenEmpty(metadata, oEmbed) ==
    (DOMAIN metadata \subseteq {"oEmbed"}) /\ DOMAIN oEmbed = {} /\ ~HasProp(oEmbed, "type")

\* if (!Object.keys(metadata).length || !('type' in oEmbed)) return embedMeta
ReturnsSeed(metadata, oEmbed) ==
    (DOMAIN metadata = {}) \/ ~HasProp(oEmbed, "type")

\* a title merge that prefers the page's Open-Graph title to oEmbed's
EmbedTitlePageFirst(metadata, oEmbed) ==
    Coalesce(Get(metadata, "ogTitle"),
      Coalesce(Get(oEmbed, "title"),
        Coalesce(Get(metadata, "twitterTitle"), Get(metadata, "dcTitle"))))

\* oEmbed.title ?? ogTitle ?? twitterTitle ?? dcTitle
EmbedTitle(metadata, oEmbed) ==
    Coalesce(Get(oEmbed, "title"),
      Coalesce(Get(metadata, "ogTitle"),
        Coalesce(Get(metadata, "twitterTitle"), Get(metadata, "dcTitle"))))

\* ogDescription ?? twitterDescription ?? dcDescription
EmbedDescription(metadata) ==
    Coalesce(Get(metadata, "ogDescription"),
      Coalesce(Get(metadata, "twitterDescription"), Get(metadata, "dcDescription")))

\* a candidate choice that prefers the Open-Graph image
EmbedDimsSourceImageFirst(metadata) ==
    Coalesce(FirstOf(Get(metadata, "ogImage")),
      Coalesce(FirstOf(Get(metadata, "ogVideo")),
        Coalesce(FirstOf(Get(metadata, "twitterPlayer")), Obj(EmptyObject))))

\* ogVideo?.[0] ?? twitterPlayer?.[0] ?? ogImage?.[0] ?? {}
EmbedDimsSource(metadata) ==
    Coalesce(FirstOf(Get(metadata, "ogVideo")),
      Coalesce(FirstOf(Get(metadata, "twitterPlayer")),
        Coalesce(FirstOf(Get(metadata, "ogImage")), Obj(EmptyObject))))

\* if (width && height) { embedMeta.width = width; embedMeta.height = height }
EmbedDims(metadata) ==
    LET src == EmbedDimsSource(metadata)
        width == Prop(src, "width")
        height == Prop(src, "height")
    IN  IF Truthy(width) /\ Truthy(height)
        THEN ("width" :> width) @@ ("height" :> height)
        ELSE EmptyObject

\* ogVideoDuration ?? musicDuration
EmbedDurationString(metadata) ==
    Coalesce(Get(metadata, "ogVideoDuration"), Get(metadata, "musicDuration"))

\* if (durationString) { try { embedMeta.duration = Math.round(parseInt(..) * 1000) } catch .. }
EmbedDuration(metadata) ==
    LET durationString == EmbedDurationString(metadata)
    IN  IF Truthy(durationString)
        THEN "duration" :> RoundTimes1000(ParseInt(durationString))
        ELSE EmptyObject

\* the record getEmbedMetadata resolves with, given both fetch results
MergeEmbed(url, oEmbed, pageMeta) ==
    LET embedMeta == "embed" :> Str(url)
        metadata == EmbedMetadataOf(oEmbed, pageMeta)
        title == EmbedTitle(metadata, oEmbed)
        description == EmbedDescription(metadata)
    IN  IF ReturnsSeed(metadata, oEmbed) THEN embedMeta
        ELSE embedMeta
             @@ ("type" :> Str(<<"embed/">> \o ToStr(Get(oEmbed, "type"))))
             @@ ("metadata" :> Obj(metadata))
             @@ (IF Truthy(title) THEN "title" :> title ELSE EmptyObject)
             @@ (IF Truthy(description)
                 THEN "description" :> Str(DecodeHTML(description.v))
                 ELSE EmptyObject)
             @@ EmbedDims(metadata)
             @@ EmbedDuration(metadata)

---------------------------------------------------------------------------
(* constants.ts *)

Mime(a, b) == <<a, "/", b>>

\* Formats where metadata extraction is supported
SUPPORTED_FILE_METADATA_FORMATS ==
    {Mime("image", b) : b \in {"jpeg", "png", "webp", "gif", "tiff", "avif"}}
    \cup {Mime("application", b) :
            b \in {"f4v", "mxf", "ogg", "vnd.pg.format", "vnd.rn-realmedia", "vnd.smaf",
                   "x-mpegURL", "x-pgs", "x-shockwave-flash", "x-subrip"}}
    \cup {Mime("audio", b) :
            b \in {"aac", "aiff", "amr", "basic", "bit", "G722", "g723", "iLBC", "MP4A-LATM",
                   "mp3", "mpeg", "ogg", "wav", "x-ac3", "x-adpcm", "x-caf", "x-dca",
                   "x-eac3", "x-flac", "x-gsm", "x-oma", "x-tta", "x-voc", "x-wav",
                   "x-wavpack"}}
    \cup {Mime("video", b) :
            b \in {"3gpp", "3gpp2", "avi", "MP2T", "mp4", "mpeg", "ogg", "quicktime", "webm",
                   "x-flv", "x-h261", "x-h263", "x-m4v", "x-matroska", "x-ms-asf",
                   "x-msvideo", "x-nut"}}

---------------------------------------------------------------------------
(* getFileMetadata, getImageMetadata, getMediaMetadata *)

\* allowList === '*' || allowList?.[0] === '*'
IsWildcard(allow) ==
    \/ allow = Str(<<"*">>)
    \/ allow.t = "str" /\ allow.v # <<>> /\ allow.v[1] = "*"
    \/ allow.t = "arr" /\ allow.v # <<>> /\ allow.v[1] = Str(<<"*">>)

\* the property paths an allow-list names: a string is one path, an array one per item
AllowPaths(allow) ==
    IF allow.t = "str" THEN {allow.v}
    ELSE IF allow.t = "arr" THEN {allow.v[i].v : i \in 1..Len(allow.v)}
    ELSE {}

\* a pick that copies top-level keys only and ignores key.subkey paths
PickKeysOnly(object, allow) ==
    LET paths == AllowPaths(allow)
    IN  [k \in {j \in DOMAIN object : <<j>> \in paths} |-> object[k]]

\* lodash pick(object, paths): each path that exists in object is copied; a path
\* is a key, or key.subkey
Pick(object, allow) ==
    LET paths == AllowPaths(allow)
        whole == {k \in DOMAIN object : <<k>> \in paths}
        subkeys(k) ==
            IF object[k].t = "obj"
            THEN {j \in DOMAIN object[k].v : <<k, ".", j>> \in paths}
            ELSE {}
        partial == {k \in DOMAIN object \ whole : subkeys(k) # {}}
    IN  [k \in whole \cup partial |->
            IF k \in whole THEN object[k]
            ELSE Obj([j \in subkeys(k) |-> object[k].v[j]])]

\* the allow-list filter of getImageMetadata and getMediaMetadata
FilterMetadata(full, allow) == IF IsWildcard(allow) THEN full ELSE Pick(full, allow)

\* String.prototype.trim
RECURSIVE TrimStart(_)
TrimStart(s) == IF s # <<>> /\ IsSpace(Head(s)) THEN TrimStart(Tail(s)) ELSE s
RECURSIVE TrimEnd(_)
TrimEnd(s) ==
    IF s # <<>> /\ IsSpace(s[Len(s)]) THEN TrimEnd(SubSeq(s, 1, Len(s) - 1)) ELSE s
Trim(s) == TrimEnd(TrimStart(s))

\* for each section, for each [key, value]: strings are trimmed, one level deep
TrimSections(metadata) ==
    [section \in DOMAIN metadata |->
        IF metadata[section].t = "obj"
        THEN Obj([key \in DOMAIN metadata[section].v |->
                    LET value == metadata[section].v[key]
                    IN  IF value.t = "str" THEN Str(Trim(value.v)) ELSE value])
        ELSE metadata[section]]

\* a decoder call inside try/catch: block is what the decoder does with the bytes
Decoded1(block, k) ==
    IF block.t = "obj" /\ ~HasProp(block.v, "throws") THEN k :> block ELSE EmptyObject

\* the five sub-sections of exif(sharpMetadata.exif), each kept if truthy
ExifSections(block) ==
    LET part(from, to) ==
            IF Truthy(Prop(block, from)) THEN to :> Prop(block, from) ELSE EmptyObject
    IN  IF block.t = "obj" /\ ~HasProp(block.v, "throws")
        THEN part("Image", "ifd0") @@ part("ThumbnailTags", "ifd1") @@ part("Iop", "interop")
             @@ part("GPSInfo", "gps") @@ part("Photo", "exif")
        ELSE EmptyObject

\* fullMetadata of getImageMetadata
FullImageMetadata(sharpMetadata) ==
    (IF Truthy(Get(sharpMetadata, "exif"))
     THEN ExifSections(sharpMetadata["exif"]) ELSE EmptyObject)
    @@ (IF Truthy(Get(sharpMetadata, "icc"))
        THEN Decoded1(sharpMetadata["icc"], "icc") ELSE EmptyObject)
    @@ (IF Truthy(Get(sharpMetadata, "iptc"))
        THEN Decoded1(sharpMetadata["iptc"], "iptc") ELSE EmptyObject)
    @@ (IF Truthy(Get(sharpMetadata, "xmp"))
        THEN Decoded1(sharpMetadata["xmp"], "xmp") ELSE EmptyObject)

\* sharpMetadata.width ?? null
OrNull(a) == Coalesce(a, Null)

\* getImageMetadata(stream, allowList); sharp is what transformer.metadata and the
\* thumbhash resample answer for the stream
GetImageMetadata(sharp, allow) ==
    IF sharp.err THEN EmptyObject
    ELSE
    LET m == sharp.metadata
        rotated == Truthy(Get(m, "orientation")) /\ m["orientation"].v >= 5
        full == FullImageMetadata(m)
        iptc == Get(full, "iptc")
        caption == Prop(iptc, "Caption")
        headline == Prop(iptc, "Headline")
        keywords == Prop(iptc, "Keywords")
    IN  ("width" :> OrNull(Get(m, IF rotated THEN "height" ELSE "width")))
        @@ ("height" :> OrNull(Get(m, IF rotated THEN "width" ELSE "height")))
        @@ (IF Truthy(caption) /\ caption.t = "str"
            THEN "description" :> caption ELSE EmptyObject)
        @@ (IF Truthy(headline) /\ headline.t = "str"
            THEN "title" :> headline ELSE EmptyObject)
        @@ (IF Truthy(keywords) THEN "tags" :> keywords ELSE EmptyObject)
        @@ ("metadata" :> Obj(TrimSections(FilterMetadata(full, allow))))
        @@ (IF sharp.hashOk THEN "thumbhash" :> sharp.hash ELSE EmptyObject)

\* lowercaseProps: prop.toLowerCase() on the tag names that occur (no two tags of
\* an input differ in case only, so the order of Object.entries does not matter)
ToLowerCase(prop) ==
    CASE prop \in {"TITLE", "Title"} -> "title"
      [] prop \in {"COMMENT", "Comment"} -> "comment"
      [] prop \in {"COMMENTS", "Comments"} -> "comments"
      [] OTHER -> prop
LowercaseProps(a) ==
    IF a.t = "obj"
    THEN LET names == {ToLowerCase(k) : k \in DOMAIN a.v}
         IN  [n \in names |-> a.v[CHOOSE k \in DOMAIN a.v : ToLowerCase(k) = n]]
    ELSE EmptyObject

\* Math.round(duration * 1000), the duration (seconds, fractional) being held as a
\* count of 1/10 ms: the nearest integer of v / 10, halves going up
RoundToMs(duration) == Num((2 * duration.v + 10) \div 20)

\* a stream choice that does not look at codec_type
RECURSIVE FirstStreamWithDims(_)
FirstStreamWithDims(streams) ==
    IF streams = <<>> THEN Null
    ELSE LET item == Head(streams)
         IN  IF Prop(item, "width").t = "num" /\ Prop(item, "height").t = "num"
             THEN item
             ELSE FirstStreamWithDims(Tail(streams))

\* for (const item of probeData.streams) { if (item.codec_type !== 'video') continue;
\*   if (typeof item.width === 'number' && typeof item.height === 'number') { ...; break } }
RECURSIVE FirstVideoStream(_)
FirstVideoStream(streams) ==
    IF streams = <<>> THEN Null
    ELSE LET item == Head(streams)
         IN  IF Prop(item, "codec_type") # Str(<<"video">>) THEN FirstVideoStream(Tail(streams))
             ELSE IF Prop(item, "width").t = "num" /\ Prop(item, "height").t = "num"
                  THEN item
                  ELSE FirstVideoStream(Tail(streams))

\* getMediaMetadata(stream, allowList); probe is what ffmpeg.ffprobe answers
GetMediaMetadata(probe, allow) ==
    IF probe.err THEN EmptyObject
    ELSE
    LET probeData == probe.data
        duration == Prop(probeData["format"], "duration")
        formatTags == LowercaseProps(Prop(probeData["format"], "tags"))
        stream == FirstVideoStream(probeData["streams"].v)
        all == probeData @@ ("stream" :> stream)
    IN  (IF Truthy(duration) THEN "duration" :> RoundToMs(duration) ELSE EmptyObject)
        @@ (IF Truthy(Get(formatTags, "title"))
            THEN "title" :> Str(ToStr(formatTags["title"])) ELSE EmptyObject)
        @@ (IF Truthy(Get(formatTags, "comment"))
            THEN "description" :> Str(ToStr(formatTags["comment"]))
            ELSE IF Truthy(Get(formatTags, "comments"))
                 THEN "description" :> Str(ToStr(formatTags["comments"]))
                 ELSE EmptyObject)
        @@ (IF stream # Null
            THEN ("width" :> stream.v["width"]) @@ ("height" :> stream.v["height"])
            ELSE EmptyObject)
        @@ ("metadata" :> Obj(FilterMetadata(all, allow)))

\* type.startsWith('image/')
IsImageType(type) == Len(type) >= 2 /\ type[1] = "image" /\ type[2] = "/"

\* getFileMetadata(stream, type, allowList); f is what the stream holds
GetFileMetadata(f, type, allow) ==
    IF IsImageType(type) THEN GetImageMetadata(f.sharp, allow)
    ELSE GetMediaMetadata(f.probe, allow)

---------------------------------------------------------------------------
(* Inputs of getEmbedMetadata(url): the answers of the two fetches and of the
   favicon observable *)

MaxDurLen == 2
MaxIcons == 3

\* the url argument
PageURL == <<"https:", "/", "/", "example.com", "/", "videos", "/", "watch">>

\* either no property k, or k with one of the values
Opt(k, values) == {EmptyObject} \cup {k :> v : v \in values}

SeqsUpTo(S, n) == UNION {[1..k -> S] : k \in 0..n}

\* oEmbed answers: extractOEmbed fulfils with an object, or rejects
OEmbedObjects ==
    {a @@ b @@ c :
        a \in Opt("type", {Str(<<"video">>)}),
        b \in Opt("title", {Str(<<>>), Str(<<"oEmbed title">>)}),
        c \in Opt("description", {Str(<<"oEmbed description">>)})}
OEmbedFailure == [ok |-> FALSE]
OEmbedAnswers == {OEmbedFailure} \cup {[ok |-> TRUE, value |-> o] : o \in OEmbedObjects}
OEmbedFew ==
    {OEmbedFailure, [ok |-> TRUE, value |-> EmptyObject],
     [ok |-> TRUE, value |-> "type" :> Str(<<"video">>)]}

\* page scrape answers: extractPageMeta fulfils with {html, result}, or rejects
ScrapedFavicon == "favicon" :> Str(<<"/", "favicon.ico">>)
TitlePages ==
    {ScrapedFavicon @@ a @@ b @@ c :
        a \in Opt("ogTitle", {Str(<<>>), Str(<<"Foo">>)}),
        b \in Opt("twitterTitle", {Str(<<>>), Str(<<"twitter title">>)}),
        c \in Opt("dcTitle", {Str(<<>>), Str(<<"dc title">>)})}
DescriptionPages ==
    {ScrapedFavicon @@ a @@ b @@ c :
        a \in Opt("ogDescription", {Str(<<>>), Str(<<"Tom ", "&amp;", " Jerry">>)}),
        b \in Opt("twitterDescription", {Str(<<>>), Str(<<"twitter description">>)}),
        c \in Opt("dcDescription", {Str(<<>>), Str(<<"&lt;", "b", "&gt;">>)})}
Size(w, h) == Obj(("width" :> Num(w)) @@ ("height" :> Num(h)))
DimensionPages ==
    {ScrapedFavicon @@ a @@ b @@ c :
        a \in Opt("ogVideo",
                  {Arr(<<>>), Arr(<<Size(1280, 720)>>), Arr(<<Obj("width" :> Num(1280))>>),
                   Arr(<<Obj("url" :> Str(<<"v.mp4">>))>>)}),
        b \in Opt("twitterPlayer",
                  {Arr(<<>>), Arr(<<Size(480, 270)>>), Arr(<<Obj("height" :> Num(270))>>)}),
        c \in Opt("ogImage",
                  {Arr(<<>>), Arr(<<Size(1200, 630), Size(100, 100)>>), Arr(<<Size(0, 630)>>)})}
DurationChars == {"1", "5", "x", " "}
DurationStrings == {Str(s) : s \in SeqsUpTo(DurationChars, MaxDurLen)}
DurationPages ==
    {ScrapedFavicon @@ a @@ b :
        a \in Opt("ogVideoDuration", DurationStrings),
        b \in Opt("musicDuration", DurationStrings)}
FaviconlessPages ==
    {("ogTitle" :> Str(<<"Foo">>)) @@ a : a \in Opt("favicon", {Str(<<>>)})}
PageFailure == [ok |-> FALSE]
PageOk(result) == [ok |-> TRUE, result |-> result]

\* favicon candidates of parseFavicon, and how the observable ends
IconURLs ==
    {Null, Str(<<>>), Str(<<"a.ico">>), Str(<<"b.ico">>),
     Str(<<"https:", "/", "/", "cdn.example", "/", "c.ico">>)}
Icons == {"url" :> u : u \in IconURLs}
IconEnds == {"complete", "error"}
IconSources == {[icons |-> s, end |-> e] : s \in SeqsUpTo(Icons, MaxIcons), e \in IconEnds}
NoIcons == [icons |-> <<>>, end |-> "complete"]

Scenario(o, p, i) == [o |-> o, p |-> p, i |-> i]
EmbedScenarios ==
    {Scenario(o, PageOk(r), NoIcons) :
        o \in OEmbedAnswers, r \in TitlePages \cup DescriptionPages}
    \cup {Scenario(o, PageOk(r), NoIcons) : o \in OEmbedFew, r \in DimensionPages}
    \cup {Scenario(o, PageOk(r), NoIcons) :
            o \in OEmbedFew \ {OEmbedFailure}, r \in DurationPages}
    \cup {Scenario(o, PageFailure, NoIcons) : o \in OEmbedAnswers}
    \cup {Scenario(o, PageOk(r), i) :
            o \in OEmbedFew \ {[ok |-> TRUE, value |-> EmptyObject]},
            r \in FaviconlessPages, i \in IconSources}

---------------------------------------------------------------------------
(* getEmbedMetadata and getFavicon as processes *)

Uncreated == [state |-> "uncreated"]
PageFetching == [state |-> "pending", await |-> "extractPageMeta"]
PageAwaitFavicon == [state |-> "pending", await |-> "getFavicon"]

InitEmbed ==
    /\ call = "getEmbedMetadata"
    /\ \E sc \in EmbedScenarios :
        /\ oEmbedSrc = sc.o
        /\ pageSrc = sc.p
        /\ iconSrc = sc.i
    /\ oEmbedP = Pending
    /\ pageP = PageFetching
    /\ subscription = "none"
    /\ produced = 0
    /\ favicon = Null
    /\ favP = Uncreated
    /\ embedP = Pending
    /\ order = <<>>

IdleEmbed ==
    /\ oEmbedSrc = OEmbedFailure
    /\ pageSrc = PageFailure
    /\ iconSrc = NoIcons
    /\ oEmbedP = Uncreated
    /\ pageP = Uncreated
    /\ subscription = "none"
    /\ produced = 0
    /\ favicon = Null
    /\ favP = Uncreated
    /\ embedP = Uncreated
    /\ order = <<>>

\* extractOEmbed(url, {}, fetchOptions) fulfils: no handler runs, the value passes on
OEmbedResolved ==
    /\ call = "getEmbedMetadata"
    /\ oEmbedP = Pending
    /\ oEmbedSrc.ok
    /\ oEmbedP' = Fulfilled(oEmbedSrc.value)
    /\ order' = Append(order, "oEmbed")
    /\ UNCHANGED <<call, embedInputs, pageP, subscription, produced, favicon, favP, embedP,
                   fileInputs, fileVars>>

\* extractOEmbed rejects: .catch((err) => { logger.warn(..); return {}; })
OEmbedCaught ==
    /\ call = "getEmbedMetadata"
    /\ oEmbedP = Pending
    /\ ~oEmbedSrc.ok
    /\ oEmbedP' = Fulfilled(EmptyObject)
    /\ order' = Append(order, "oEmbed")
    /\ UNCHANGED <<call, embedInputs, pageP, subscription, produced, favicon, favP, embedP,
                   fileInputs, fileVars>>

\* result.favicon === undefined || result.favicon.length === 0
LacksFavicon(result) ==
    LET f == Get(result, "favicon")
    IN  f = Undefined \/ (f.t = "str" /\ Len(f.v) = 0)

\* extractPageMeta fulfils: the .then callback runs up to `await getFavicon(..)`, whose
\* executor subscribes to parseFavicon(url, textFetcher, bufferFetcher), or to its return
PageScraped ==
    /\ call = "getEmbedMetadata"
    /\ pageP = PageFetching
    /\ pageSrc.ok
    /\ order' = Append(order, "page")
    /\ IF LacksFavicon(pageSrc.result)
       THEN /\ pageP' = PageAwaitFavicon
            /\ favP' = Pending
            /\ favicon' = Null
            /\ subscription' = "open"
       ELSE /\ pageP' = Fulfilled(pageSrc.result)
            /\ UNCHANGED <<favP, favicon, subscription>>
    /\ UNCHANGED <<call, embedInputs, oEmbedP, produced, embedP, fileInputs, fileVars>>

\* extractPageMeta rejects: the .then has no rejection handler, so the second element
\* of Promise.all rejects, Promise.all rejects and the await in getEmbedMetadata throws
PageRejected ==
    /\ call = "getEmbedMetadata"
    /\ pageP = PageFetching
    /\ ~pageSrc.ok
    /\ pageP' = Rejected
    /\ embedP' = Rejected
    /\ order' = Append(order, "page")
    /\ UNCHANGED <<call, embedInputs, oEmbedP, subscription, produced, favicon, favP,
                   fileInputs, fileVars>>

\* a next handler that resolves but leaves the subscription open
NextHandlerKeepsSubscription(icon, st) ==
    IF Truthy(icon["url"])
    THEN LET resolved == Str(ResolveURL(icon["url"].v, PageURL))
         IN  [favicon |-> resolved,
              subscription |-> st.subscription,
              favP |-> Resolve(st.favP, resolved)]
    ELSE st

\* next: (icon) => { if (icon.url) { favicon = new URL(icon.url, url).toString();
\*                                   subscription.unsubscribe(); resolve(favicon); } }
NextHandler(icon, st) ==
    IF Truthy(icon["url"])
    THEN LET resolved == Str(ResolveURL(icon["url"].v, PageURL))
         IN  [favicon |-> resolved,
              subscription |-> "closed",
              favP |-> Resolve(st.favP, resolved)]
    ELSE st

\* error: (err) => { logger.warn(..); logger.warn(err); }
\* an error notification ends the observable: the subscriber is closed without the
\* handler's doing
ErrorHandler(st) == [st EXCEPT !.subscription = "closed"]

\* complete: () => { if (!subscription.closed) subscription.unsubscribe(); resolve(favicon); }
CompleteHandler(st) ==
    [st EXCEPT !.subscription = "closed", !.favP = Resolve(st.favP, st.favicon)]

FaviconState == [favicon |-> favicon, subscription |-> subscription, favP |-> favP]
SetFaviconState(st) ==
    /\ favicon' = st.favicon
    /\ subscription' = st.subscription
    /\ favP' = st.favP

\* the observable delivers its next candidate to an open subscription (candidates
\* come from parseFavicon's fetches, after subscribe() has returned)
FaviconNext ==
    /\ call = "getEmbedMetadata"
    /\ subscription = "open"
    /\ produced < Len(iconSrc.icons)
    /\ produced' = produced + 1
    /\ SetFaviconState(NextHandler(iconSrc.icons[produced + 1], FaviconState))
    /\ UNCHANGED <<call, embedInputs, oEmbedP, pageP, embedP, order, fileInputs, fileVars>>

\* the observable signals an error to an open subscription
FaviconError ==
    /\ call = "getEmbedMetadata"
    /\ subscription = "open"
    /\ produced = Len(iconSrc.icons)
    /\ iconSrc.end = "error"
    /\ SetFaviconState(ErrorHandler(FaviconState))
    /\ UNCHANGED <<call, embedInputs, oEmbedP, pageP, produced, embedP, order,
                   fileInputs, fileVars>>

\* the observable completes
FaviconComplete ==
    /\ call = "getEmbedMetadata"
    /\ subscription = "open"
    /\ produced = Len(iconSrc.icons)
    /\ iconSrc.end = "complete"
    /\ SetFaviconState(CompleteHandler(FaviconState))
    /\ UNCHANGED <<call, embedInputs, oEmbedP, pageP, produced, embedP, order,
                   fileInputs, fileVars>>

\* const favicon = await getFavicon(..); if (favicon) result.favicon = favicon; return result
WithFavicon(result, found) ==
    IF Truthy(found) THEN ("favicon" :> found) @@ result ELSE result

PageFaviconDone ==
    /\ call = "getEmbedMetadata"
    /\ pageP = PageAwaitFavicon
    /\ favP.state = "fulfilled"
    /\ pageP' = Fulfilled(WithFavicon(pageSrc.result, favP.value))
    /\ UNCHANGED <<call, embedInputs, oEmbedP, subscription, produced, favicon, favP, embedP,
                   order, fileInputs, fileVars>>

\* both elements of Promise.all are fulfilled: the rest of getEmbedMetadata runs
EmbedMerge ==
    /\ call = "getEmbedMetadata"
    /\ embedP = Pending
    /\ oEmbedP.state = "fulfilled"
    /\ pageP.state = "fulfilled"
    /\ embedP' = Fulfilled(MergeEmbed(PageURL, oEmbedP.value, pageP.value))
    /\ UNCHANGED <<call, embedInputs, oEmbedP, pageP, subscription, produced, favicon, favP,
                   order, fileInputs, fileVars>>

---------------------------------------------------------------------------
(* Inputs of extractFileMetadata, extractMetadata and getFileMetadata *)

MaxExisting == 2
MaxStreams == 3

OverlayFields ==
    {"height", "width", "duration", "metadata", "description", "title", "tags", "thumbhash"}

\* values a caller's record may hold in a field
ExistingValues(f) ==
    IF f \in {"height", "width", "duration"} THEN {Null, Num(0), Num(7)}
    ELSE IF f = "metadata" THEN {Null, Obj(EmptyObject)}
    ELSE {Null, Str(<<>>), Str(<<"old">>)}

\* the caller's fields: at most MaxExisting of them are given
ExistingRecords ==
    UNION {{r \in [S -> UNION {ExistingValues(f) : f \in S}] :
                \A f \in S : r[f] \in ExistingValues(f)} :
           S \in {T \in SUBSET OverlayFields : Cardinality(T) <= MaxExisting}}
AllExisting ==
    [f \in OverlayFields |->
        IF f \in {"height", "width", "duration"} THEN Num(7)
        ELSE IF f = "metadata" THEN Obj(EmptyObject) ELSE Str(<<"old">>)]

DeclaredTypes ==
    {Null, Str(<<>>), Str(Mime("image", "jpeg")), Str(Mime("image", "svg+xml")),
     Str(Mime("IMAGE", "JPEG")), Str(Mime("video", "mp4")), Str(Mime("audio", "mpeg")),
     Str(Mime("text", "plain")), Str(Mime("application", "pdf"))}
DiskNames == {Null, Str(<<>>), Str(<<"f.bin">>)}

\* what sharp answers for a stream
SharpError == [err |-> TRUE]
Photo ==
    [err |-> FALSE,
     metadata |->
        ("width" :> Num(4000)) @@ ("height" :> Num(3000)) @@ ("orientation" :> Num(6))
        @@ ("exif" :> Obj(("Image" :> Obj("Make" :> Str(<<" ", "Canon", " ">>)))
                          @@ ("Photo" :> Obj(("FNumber" :> Num(4))
                                             @@ ("LensModel" :> Str(<<"EF50", " ">>))))))
        @@ ("icc" :> Obj("throws" :> Str(<<"bad profile">>)))
        @@ ("iptc" :> Obj(("Caption" :> Str(<<"A caption">>))
                          @@ ("Headline" :> Str(<<"A headline">>))
                          @@ ("Keywords" :> Str(<<"a,b">>)))),
     hashOk |-> TRUE,
     hash |-> Str(<<"thumbhash bytes">>)]
Drawing ==
    [err |-> FALSE,
     metadata |-> ("width" :> Num(640)) @@ ("height" :> Num(480))
                  @@ ("xmp" :> Obj("Creator" :> Str(<<"me">>))),
     hashOk |-> FALSE,
     hash |-> Null]

\* what ffprobe answers for a stream
ProbeError == [err |-> TRUE]
Probe(format, streams) ==
    [err |-> FALSE, data |-> ("format" :> Obj(format)) @@ ("streams" :> Arr(streams))]
Stream(type, dims) == Obj(("codec_type" :> Str(<<type>>)) @@ dims)
Dims(w, h) == ("width" :> Num(w)) @@ ("height" :> Num(h))
StreamKinds ==
    {Stream("audio", EmptyObject), Stream("audio", Dims(16, 16)),
     Stream("video", EmptyObject), Stream("video", "width" :> Num(800)),
     Stream("video", Dims(1920, 1080)), Stream("video", Dims(640, 480))}
Formats ==
    {a @@ b : a \in Opt("duration", {Num(0), Num(12345), Num(12344)}),
              b \in Opt("tags", {Obj(("TITLE" :> Str(<<"A film">>))
                                     @@ ("Comments" :> Str(<<"remarks">>))),
                                 Obj(("comment" :> Str(<<"a remark">>))
                                     @@ ("comments" :> Str(<<"remarks">>)))})}
Clip ==
    Probe(("duration" :> Num(12345)) @@ ("tags" :> Obj("TITLE" :> Str(<<"A film">>))),
          <<Stream("audio", EmptyObject), Stream("video", Dims(1920, 1080))>>)

\* stored files: what each extractor would answer for the stored bytes
StoredFile(sharp, probe) == [missing |-> FALSE, sharp |-> sharp, probe |-> probe]
MissingFile == [missing |-> TRUE]
FewFiles ==
    {StoredFile(Photo, ProbeError), StoredFile(Drawing, ProbeError),
     StoredFile(SharpError, Clip), StoredFile(SharpError, ProbeError), MissingFile}
MediaFiles ==
    {StoredFile(SharpError, Probe(f, s)) :
        f \in {EmptyObject}, s \in SeqsUpTo(StreamKinds, MaxStreams)}
    \cup {StoredFile(SharpError, Probe(f, <<Stream("video", Dims(640, 480))>>)) : f \in Formats}

\* FILE_METADATA_ALLOW_LIST values
AllowLists ==
    {Str(<<"*">>), Arr(<<Str(<<"*">>)>>), Arr(<<>>),
     Arr(<<Str(<<"ifd0">>), Str(<<"exif", ".", "FNumber">>), Str(<<"format">>),
           Str(<<"stream">>)>>)}

\* explicit allow-lists of up to MaxAllow paths, and lists that start with '*'
MaxAllow == 2
AllowPathNames ==
    {<<"ifd0">>, <<"exif">>, <<"exif", ".", "FNumber">>, <<"iptc">>, <<"format">>,
     <<"stream">>, <<"unknown">>}
PathAllowLists ==
    {Arr([i \in 1..Len(q) |-> Str(q[i])]) : q \in SeqsUpTo(AllowPathNames, MaxAllow)}
    \cup {Arr(<<Str(<<"*">>), Str(<<"ifd0">>)>>)}

FileRecord(type, name, existing) ==
    existing @@ (IF type = Undefined THEN EmptyObject ELSE "type" :> type)
             @@ (IF name = Undefined THEN EmptyObject ELSE "filename_disk" :> name)

FileScenario(d, f, a) == [data |-> d, file |-> f, allow |-> a]
ExtractScenarios ==
    {FileScenario(FileRecord(t, n, e), f, Str(<<"*">>)) :
        t \in DeclaredTypes \cup {Undefined}, n \in DiskNames \cup {Undefined},
        e \in {EmptyObject, AllExisting}, f \in FewFiles}
    \cup {FileScenario(FileRecord(t, Str(<<"f.bin">>), e), f, a) :
            t \in {Str(Mime("image", "jpeg")), Str(Mime("video", "mp4"))},
            e \in ExistingRecords,
            f \in {StoredFile(Photo, Clip)},
            a \in {Arr(<<Str(<<"ifd0">>)>>)}}
GetFileScenarios ==
    {FileScenario(FileRecord(t, Undefined, EmptyObject), f, a) :
        t \in {Str(Mime("image", "jpeg")), Str(Mime("video", "mp4"))},
        f \in FewFiles \ {MissingFile}, a \in AllowLists \cup PathAllowLists}
    \cup {FileScenario(FileRecord(Str(Mime("video", "mp4")), Undefined, EmptyObject), f, a) :
            f \in MediaFiles, a \in {Str(<<"*">>), Arr(<<Str(<<"stream">>)>>)}}

---------------------------------------------------------------------------
(* extractFileMetadata, extractMetadata and getFileMetadata as processes *)

ExtractCalls == {"extractFileMetadata", "extractMetadata"}

InitExtract ==
    /\ call \in ExtractCalls
    /\ \E sc \in ExtractScenarios :
        /\ data = sc.data
        /\ file = sc.file
        /\ allowList = sc.allow
    /\ filePc = "getStorage"
    /\ streamReads = 0
    /\ extractorCalls = 0
    /\ fileP = Pending

InitGetFile ==
    /\ call = "getFileMetadata"
    /\ \E sc \in GetFileScenarios :
        /\ data = sc.data
        /\ file = sc.file
        /\ allowList = sc.allow
    /\ filePc = "extracting"
    /\ streamReads = 0
    /\ extractorCalls = 1
    /\ fileP = Pending

\* a condition without the membership test
ShouldExtractAnyType(c, d) ==
    /\ Truthy(Get(d, "type"))
    /\ c = "extractFileMetadata" => Truthy(Get(d, "filename_disk"))

\* extractFileMetadata: data.type && FORMATS.includes(data.type) && data.filename_disk
\* extractMetadata:     data.type && FORMATS.includes(data.type)
ShouldExtract(c, d) ==
    /\ Truthy(Get(d, "type"))
    /\ d["type"].v \in SUPPORTED_FILE_METADATA_FORMATS
    /\ c = "extractFileMetadata" => Truthy(Get(d, "filename_disk"))

\* an overlay that lets the derived title replace the caller's
OverlayClobbersTitle(d, derived) ==
    [f \in {g \in OverlayFields :
                (g = "title" \/ ~Truthy(Get(d, g))) /\ Truthy(Get(derived, g))} |->
        derived[f]]

\* if (!data.f && f) fileMeta.f = f, for each of the eight fields
Overlay(d, derived) ==
    [f \in {g \in OverlayFields : ~Truthy(Get(d, g)) /\ Truthy(Get(derived, g))} |->
        derived[f]]

\* getStorage() has answered: the condition is evaluated; the stream is asked for, or
\* the empty fileMeta is returned
ExtractCheck ==
    /\ call \in ExtractCalls
    /\ filePc = "getStorage"
    /\ IF ShouldExtract(call, data)
       THEN /\ streamReads' = streamReads + 1
            /\ filePc' = "reading"
            /\ UNCHANGED fileP
       ELSE /\ fileP' = Fulfilled(EmptyObject)
            /\ filePc' = "done"
            /\ UNCHANGED streamReads
    /\ UNCHANGED <<call, embedInputs, embedVars, fileInputs, extractorCalls>>

\* storage.location(..).read(..) answers with a stream: getFileMetadata is called
StreamOpened ==
    /\ call \in ExtractCalls
    /\ filePc = "reading"
    /\ ~file.missing
    /\ extractorCalls' = extractorCalls + 1
    /\ filePc' = "extracting"
    /\ UNCHANGED <<call, embedInputs, embedVars, fileInputs, streamReads, fileP>>

\* storage.location(..).read(..) rejects: the await throws
StreamFailed ==
    /\ call \in ExtractCalls
    /\ filePc = "reading"
    /\ file.missing
    /\ fileP' = Rejected
    /\ filePc' = "done"
    /\ UNCHANGED <<call, embedInputs, embedVars, fileInputs, streamReads, extractorCalls>>

\* getFileMetadata has answered inside extractFileMetadata: the overlay, and the return
ExtractOverlay ==
    /\ call \in ExtractCalls
    /\ filePc = "extracting"
    /\ fileP' = Fulfilled(Overlay(data, GetFileMetadata(file, data["type"].v, allowList)))
    /\ filePc' = "done"
    /\ UNCHANGED <<call, embedInputs, embedVars, fileInputs, streamReads, extractorCalls>>

\* getFileMetadata called on its own: the extractor's callback resolves the promise
GetFileDone ==
    /\ call = "getFileMetadata"
    /\ filePc = "extracting"
    /\ fileP' = Fulfilled(GetFileMetadata(file, data["type"].v, allowList))
    /\ filePc' = "done"
    /\ UNCHANGED <<call, embedInputs, embedVars, fileInputs, streamReads, extractorCalls>>

IdleFile ==
    /\ data = EmptyObject
    /\ file = EmptyObject
    /\ allowList = <<>>
    /\ filePc = "idle"
    /\ streamReads = 0
    /\ extractorCalls = 0
    /\ fileP = Uncreated

Init ==
    \/ InitEmbed /\ IdleFile
    \/ InitExtract /\ IdleEmbed
    \/ InitGetFile /\ IdleEmbed

Next ==
    \/ OEmbedResolved
    \/ OEmbedCaught
    \/ PageScraped
    \/ PageRejected
    \/ FaviconNext
    \/ FaviconError
    \/ FaviconComplete
    \/ PageFaviconDone
    \/ EmbedMerge
    \/ ExtractCheck
    \/ StreamOpened
    \/ StreamFailed
    \/ ExtractOverlay
    \/ GetFileDone

Spec == Init /\ [][Next]_vars

---------------------------------------------------------------------------
(* Properties of getEmbedMetadata and getFavicon *)

EmbedDone == call = "getEmbedMetadata" /\ embedP.state = "fulfilled"
Seed == "embed" :> Str(PageURL)
\* the oEmbed source reports a type field
OEmbedReportsType == oEmbedSrc.ok /\ HasProp(oEmbedSrc.value, "type")
OEmbedField(k) == IF oEmbedSrc.ok THEN Get(oEmbedSrc.value, k) ELSE Undefined
PageField(k) == IF pageSrc.ok THEN Get(pageSrc.result, k) ELSE Undefined

\* C1: getEmbedMetadata(url) never rejects, whatever the oEmbed fetch and the page
\* scrape do (the page scrape rejecting included): it resolves with a record whose
\* embed field is url.
C1_EmbedNeverRejects ==
    call = "getEmbedMetadata" =>
        /\ embedP.state # "rejected"
        /\ embedP.state = "fulfilled" => Get(embedP.value, "embed") = Str(PageURL)

\* index of the first candidate with a non-empty url, 0 when there is none
FirstUrlIcon ==
    LET S == {i \in 1..Len(iconSrc.icons) : Truthy(iconSrc.icons[i]["url"])}
    IN  IF S = {} THEN 0 ELSE CHOOSE i \in S : \A j \in S : i <= j

\* C2: getFavicon handles the candidates in production order and resolves with the
\* absolute URL of the first candidate whose url is non-empty, closing the subscription
\* in the same step, so that no later candidate is produced or handled; it resolves
\* to null when the sequence completes without such a candidate. For the candidates
\* [{url:null},{url:'a.ico'},{url:'b.ico'}] the result is a.ico (against the page url)
\* and the third candidate is never handled.
C2_FaviconFirstUrlWins ==
    call = "getEmbedMetadata" =>
        LET first == FirstUrlIcon
        IN  /\ produced <= (IF first > 0 THEN first ELSE Len(iconSrc.icons))
            /\ (first > 0 /\ produced = first) =>
                   /\ subscription = "closed"
                   /\ favP = Fulfilled(Str(ResolveURL(iconSrc.icons[first]["url"].v, PageURL)))
                   /\ IsAbsoluteURL(favP.value.v)
            /\ (favP.state = "fulfilled" /\ first > 0) => produced = first
            /\ (favP.state = "fulfilled" /\ first = 0) =>
                   /\ favP.value = Null
                   /\ produced = Len(iconSrc.icons)
                   /\ iconSrc.end = "complete"
            /\ (iconSrc.icons = <<"url" :> Null, "url" :> Str(<<"a.ico">>),
                                  "url" :> Str(<<"b.ico">>)>>
                /\ favP.state = "fulfilled") =>
                   /\ favP.value =
                        Str(<<"https:", "/", "/", "example.com", "/", "videos", "/", "a.ico">>)
                   /\ produced = 2

C2_Witness ==
    /\ call = "getEmbedMetadata"
    /\ iconSrc.icons = <<"url" :> Null, "url" :> Str(<<"a.ico">>), "url" :> Str(<<"b.ico">>)>>
    /\ favP.state = "fulfilled"
    /\ produced = 2
    /\ subscription = "closed"

\* C3: an error signalled by the favicon observable does not keep getFavicon from
\* resolving: whenever the subscription has ended (after which no handler runs again)
\* the returned promise is resolved, with a favicon URL or with null.
C3_FaviconResolvesAfterError ==
    (call = "getEmbedMetadata" /\ subscription = "closed") => favP.state = "fulfilled"

\* C4: the result has a type, and any merged field, only when the oEmbed result has a
\* type field; when it has none (the oEmbed fetch having failed included) the result
\* is the untouched seed {embed: url}, whatever the page scrape produced.
C4_TypePresenceGate ==
    EmbedDone =>
        /\ HasProp(embedP.value, "type") => OEmbedReportsType
        /\ ~OEmbedReportsType => embedP.value = Seed
        /\ OEmbedReportsType =>
               /\ embedP.value["type"] = Str(<<"embed/">> \o oEmbedSrc.value["type"].v)
               /\ HasProp(embedP.value, "metadata")

C4_Witness ==
    /\ EmbedDone
    /\ ~oEmbedSrc.ok
    /\ PageField("ogTitle") = Str(<<"Foo">>)
    /\ embedP.value = Seed

\* the first value of the sequence that is non-empty (truthy), undefined when none is
RECURSIVE FirstNonEmpty(_)
FirstNonEmpty(vals) ==
    IF vals = <<>> THEN Undefined
    ELSE IF Truthy(Head(vals)) THEN Head(vals)
    ELSE FirstNonEmpty(Tail(vals))

\* the first value of the sequence that is present (neither undefined nor null)
RECURSIVE FirstPresent(_)
FirstPresent(vals) ==
    IF vals = <<>> THEN Undefined
    ELSE IF ~Nullish(Head(vals)) THEN Head(vals)
    ELSE FirstPresent(Tail(vals))

\* the result's property k is v when v is non-empty, and is missing otherwise
ResultHasExactly(k, v) ==
    IF Truthy(v) THEN Get(embedP.value, k) = v ELSE ~HasProp(embedP.value, k)

Decoded(v) == IF v.t = "str" THEN Str(DecodeHTML(v.v)) ELSE v

\* C6 as stated: in the merged result, title is the first non-empty title in the
\* order oEmbed, Open-Graph, Twitter, Dublin-Core, and description is the first
\* non-empty description in the same order (oEmbed first), HTML entities decoded.
C6_FirstNonEmptyWins ==
    (EmbedDone /\ OEmbedReportsType) =>
        /\ ResultHasExactly("title",
              FirstNonEmpty(<<OEmbedField("title"), PageField("ogTitle"),
                              PageField("twitterTitle"), PageField("dcTitle")>>))
        /\ ResultHasExactly("description",
              Decoded(FirstNonEmpty(<<OEmbedField("description"), PageField("ogDescription"),
                                      PageField("twitterDescription"),
                                      PageField("dcDescription")>>)))

\* C6 amended: in the merged result, title is the first PRESENT (not undefined, not
\* null) title in the order oEmbed, Open-Graph, Twitter, Dublin-Core, attached only
\* if it is non-empty (an empty higher-priority title hides the lower ones);
\* description is the first present description in the order Open-Graph, Twitter,
\* Dublin-Core (oEmbed's is not consulted), HTML entities decoded, attached only if
\* non-empty; neither depends on which fetch answered first.
C6_FirstPresentWins ==
    (EmbedDone /\ OEmbedReportsType) =>
        /\ ResultHasExactly("title",
              FirstPresent(<<OEmbedField("title"), PageField("ogTitle"),
                             PageField("twitterTitle"), PageField("dcTitle")>>))
        /\ ResultHasExactly("description",
              Decoded(FirstPresent(<<PageField("ogDescription"),
                                     PageField("twitterDescription"),
                                     PageField("dcDescription")>>)))
        /\ PageField("ogDescription") = Str(<<"Tom ", "&amp;", " Jerry">>) =>
               embedP.value["description"] = Str(<<"Tom ", "&", " Jerry">>)

\* the page answered first and has a title, oEmbed answered last with an empty
\* title: oEmbed's title is the one chosen, and no title is attached
C6_Witness ==
    /\ EmbedDone
    /\ OEmbedReportsType
    /\ order = <<"page", "oEmbed">>
    /\ OEmbedField("title") = Str(<<>>)
    /\ PageField("ogTitle") = Str(<<"Foo">>)
    /\ ~HasProp(embedP.value, "title")

\* a decimal integer numeral: digits only, at least one
IsIntegerNumeral(s) == s # <<>> /\ \A i \in 1..Len(s) : IsDigit(s[i])

\* text without any digit
IsNonNumeric(s) == s # <<>> /\ \A i \in 1..Len(s) : ~IsDigit(s[i])

\* C7: when the duration tag (ogVideoDuration, else musicDuration) is present but is
\* non-numeric text, the result has no duration field (not NaN, not any other value);
\* when it is an integer number of seconds, duration is seconds * 1000. (Text that
\* mixes digits with other characters is left open here.)
C7_UnparseableDurationOmitted ==
    (EmbedDone /\ OEmbedReportsType) =>
        LET tag == FirstPresent(<<PageField("ogVideoDuration"), PageField("musicDuration")>>)
        IN  Truthy(tag) =>
                /\ IsIntegerNumeral(tag.v) =>
                       Get(embedP.value, "duration") = Num(DigitsValue(tag.v, 0) * 1000)
                /\ IsNonNumeric(tag.v) => ~HasProp(embedP.value, "duration")

\* the first item of the first non-empty candidate list, in the order Open-Graph
\* video, Twitter player, Open-Graph image
RECURSIVE FirstCandidate(_)
FirstCandidate(lists) ==
    IF lists = <<>> THEN Obj(EmptyObject)
    ELSE IF Head(lists).t = "arr" /\ Len(Head(lists).v) > 0 THEN Head(lists).v[1]
    ELSE FirstCandidate(Tail(lists))

---------------------------------------------------------------------------
(* Properties of extractFileMetadata, extractMetadata and getFileMetadata *)

ExtractDone == call \in ExtractCalls /\ fileP.state = "fulfilled"

\* C5: the result of extractFileMetadata / extractMetadata contains a field f of
\* width, height, duration, metadata, description, title, tags, thumbhash only if
\* the caller's record has f absent or falsy, and then it is the derived value; if the
\* caller's title is set the result has no title, whatever the extractor found.
C5_OverlayOnlyIfAbsent ==
    ExtractDone =>
        /\ DOMAIN fileP.value \subseteq OverlayFields
        /\ \A f \in DOMAIN fileP.value :
              /\ ~Truthy(Get(data, f))
              /\ extractorCalls = 1
              /\ fileP.value[f] = GetFileMetadata(file, data["type"].v, allowList)[f]
        /\ Truthy(Get(data, "title")) => ~HasProp(fileP.value, "title")

C5_Witness ==
    /\ ExtractDone
    /\ Get(data, "title") = Str(<<"old">>)
    /\ extractorCalls = 1
    /\ HasProp(GetFileMetadata(file, data["type"].v, allowList), "title")
    /\ ~HasProp(fileP.value, "title")
    /\ HasProp(fileP.value, "width")

\* the declared type is missing or no member of SUPPORTED_FILE_METADATA_FORMATS
UnsupportedType ==
    LET t == Get(data, "type")
    IN  t.t # "str" \/ t.v \notin SUPPORTED_FILE_METADATA_FORMATS

\* C8: for a declared type that is missing or not in SUPPORTED_FILE_METADATA_FORMATS,
\* extractFileMetadata / extractMetadata returns an empty record, the storage stream
\* is never read and the extractor never called; the extractor is called only after
\* a storage read.
C8_UnsupportedTypeReadsNothing ==
    call \in ExtractCalls =>
        /\ UnsupportedType =>
              /\ streamReads = 0
              /\ extractorCalls = 0
              /\ filePc = "done" => fileP = Fulfilled(EmptyObject)
        /\ extractorCalls <= streamReads

C8_Witness ==
    /\ call \in ExtractCalls
    /\ Get(data, "type") = Str(Mime("text", "plain"))
    /\ Get(data, "filename_disk") = Str(<<"f.bin">>)
    /\ filePc = "done"
    /\ fileP = Fulfilled(EmptyObject)
    /\ streamReads = 0

IsNumber(a) == a.t = "num"

\* C9: getMediaMetadata takes width/height from the first stream, in report order,
\* whose codec_type is video and whose width and height are both present; other
\* streams are skipped, at most that one stream is selected, and width/height are
\* absent when no stream qualifies. Streams [audio, video 1920x1080, video 640x480]
\* give 1920x1080.
C9_FirstVideoStreamDims ==
    (/\ call = "getFileMetadata"
     /\ fileP.state = "fulfilled"
     /\ ~IsImageType(data["type"].v)
     /\ ~file.probe.err) =>
        LET streams == file.probe.data["streams"].v
            Q == {i \in 1..Len(streams) :
                    /\ Prop(streams[i], "codec_type") = Str(<<"video">>)
                    /\ IsNumber(Prop(streams[i], "width"))
                    /\ IsNumber(Prop(streams[i], "height"))}
            first == CHOOSE i \in Q : \A j \in Q : i <= j
            r == fileP.value
        IN  /\ Q = {} =>
                /\ ~HasProp(r, "width")
                /\ ~HasProp(r, "height")
                /\ allowList = Str(<<"*">>) => r["metadata"].v["stream"] = Null
            /\ Q # {} =>
                /\ r["width"] = streams[first].v["width"]
                /\ r["height"] = streams[first].v["height"]
                /\ allowList = Str(<<"*">>) => r["metadata"].v["stream"] = streams[first]
            /\ streams = <<Stream("audio", EmptyObject), Stream("video", Dims(1920, 1080)),
                           Stream("video", Dims(640, 480))>> =>
                /\ r["width"] = Num(1920)
                /\ r["height"] = Num(1080)

C9_Witness ==
    /\ call = "getFileMetadata"
    /\ fileP.state = "fulfilled"
    /\ ~file.probe.err
    /\ file.probe.data["streams"].v =
          <<Stream("audio", EmptyObject), Stream("video", Dims(1920, 1080)),
            Stream("video", Dims(640, 480))>>
    /\ Get(fileP.value, "width") = Num(1920)
    /\ Get(fileP.value, "height") = Num(1080)

---------------------------------------------------------------------------
(* Properties of the allow-list filter *)

\* getFileMetadata has answered with a metadata mapping
FilterDone ==
    /\ call = "getFileMetadata"
    /\ fileP.state = "fulfilled"
    /\ HasProp(fileP.value, "metadata")

\* the assembled mapping the filter is applied to: fullMetadata of getImageMetadata
\* (its strings as they are after the trim that follows the filter), or
\* { ...probeData, stream } of getMediaMetadata
AssembledMetadata ==
    IF IsImageType(data["type"].v)
    THEN TrimSections(FullImageMetadata(file.sharp.metadata))
    ELSE file.probe.data @@ ("stream" :> FirstVideoStream(file.probe.data["streams"].v))

\* the names the allow-list holds
AllowNames == {allowList.v[i].v : i \in 1..Len(allowList.v)}

\* C11 as stated: the filter is idempotent, with the wildcard allow-list ('*', or a
\* list starting with it) it is the identity, and for an explicit allow-list the result holds exactly the top-level
\* keys present in both the mapping and the allow-list, each with the mapping's
\* value unchanged (no deep filtering).
C11_TopLevelKeysOnly ==
    FilterDone =>
        LET m == AssembledMetadata
            out == fileP.value["metadata"].v
        IN  /\ FilterMetadata(out, allowList) = out
            /\ IsWildcard(allowList) => out = m
            /\ ~IsWildcard(allowList) =>
                  /\ DOMAIN out = {k \in DOMAIN m : <<k>> \in AllowNames}
                  /\ \A k \in DOMAIN out : out[k] = m[k]

\* C11 amended: the filter is idempotent; with an allow-list that is '*' or starts
\* with '*' it is the identity; otherwise each allow-list entry is a lodash path: a
\* top-level key of the mapping named by an entry is kept with the mapping's value
\* unchanged, and a key k named only through entries k.j is kept with a value cut
\* down to the named sub-keys j that exist (deep filtering); no other key is kept.
C11_FilterByPaths ==
    FilterDone =>
        LET m == AssembledMetadata
            out == fileP.value["metadata"].v
            named(k) ==
                IF m[k].t = "obj"
                THEN {j \in DOMAIN m[k].v : <<k, ".", j>> \in AllowNames}
                ELSE {}
        IN  /\ FilterMetadata(out, allowList) = out
            /\ IsWildcard(allowList) => out = m
            /\ ~IsWildcard(allowList) =>
                  /\ DOMAIN out =
                        {k \in DOMAIN m : <<k>> \in AllowNames \/ named(k) # {}}
                  /\ \A k \in DOMAIN out :
                        IF <<k>> \in AllowNames THEN out[k] = m[k]
                        ELSE /\ out[k].t = "obj"
                             /\ DOMAIN out[k].v = named(k)
                             /\ \A j \in named(k) : out[k].v[j] = m[k].v[j]

\* an explicit allow-list with a top-level key and a path into a section
C11_Witness ==
    /\ FilterDone
    /\ allowList = Arr(<<Str(<<"ifd0">>), Str(<<"exif", ".", "FNumber">>)>>)
    /\ file.sharp = Photo
    /\ fileP.value["metadata"].v =
          ("ifd0" :> Obj("Make" :> Str(<<"Canon">>)))
          @@ ("exif" :> Obj("FNumber" :> Num(4)))

====
